---- MODULE Spec2Model ----
(***************************************************************************)
(* whereyoufrom: a "what is my address" responder.                         *)
(*   src/src/args.rs    parse_arguments, parse_socket_arg                  *)
(*   src/src/main.rs    main                                               *)
(*   src/src/server.rs  run_server, bind_*, run_tcp_server, run_udp_server *)
(*                                                                         *)
(* Text is modelled as sequences of byte values, so that formatting and    *)
(* the bounded write into the response buffers are computed, not assumed.  *)
(***************************************************************************)
EXTENDS Integers, Sequences, FiniteSets, TLC

VARIABLES
    argv,            \* main: the command line, program name first
    request,         \* main: what parse_arguments returned (Pending before)
    phase,           \* "parsing" | "parsed" | "running" | "exited"
    exit_code,       \* -1 while the process lives, else its exit status
    tcp_attempts,    \* bind_tcp_listeners: <<address, outcome>> per attempt, in order
    udp_attempts,    \* bind_udp_sockets: the same
    tcp_listeners,   \* run_server: addresses of the bound TcpListeners (the Vec)
    udp_sockets,     \* run_server: addresses of the bound UdpSockets (the Vec)
    tcp_loop,        \* per listener task: [pc, counter, error_counter]
    udp_loop,        \* per socket task:   [pc, counter, error_counter]
    tcp_handlers,    \* per listener: the live connection tasks, in accept order
    tcp_finished,    \* per listener: connection numbers of the ended tasks, in order of ending
    tcp_obs,         \* per listener, observed: its accept operations, see NewObs
    udp_obs,         \* per socket, observed: its receive operations and sends, see NewObs
    udp_log,         \* per socket: the latest datagram and the reply handed to send_to
    peers,           \* the network: remote addresses that have not connected or sent yet
    cursor           \* one write!(cursor, ..): [buf, text, out, pos, res, pc], see WriteFmt

vars == <<argv, request, phase, exit_code, tcp_attempts, udp_attempts, tcp_listeners,
          udp_sockets, tcp_loop, udp_loop, tcp_handlers, tcp_finished, tcp_obs,
          udp_obs, udp_log, peers, cursor>>

argVars == <<argv, request>>
srvVars == <<tcp_attempts, udp_attempts, tcp_listeners, udp_sockets, tcp_loop, udp_loop,
             tcp_handlers, tcp_finished, tcp_obs, udp_obs, udp_log>>

-----------------------------------------------------------------------------
(* Program constants *)

UDP_BUF_SIZE == 1400

TCP_BUF_SIZE == 256

ErrorThreshold == 10

DEFAULT_PORT == 6969

(* Bounds of the model *)

\* accept/receive operations over all loops together
MaxOps == 12

\* command-line arguments after the program name
MaxArgs == 4

\* capacity of the buffers and length of the texts of the bounded write
MaxCap == 3

MaxText == 4

-----------------------------------------------------------------------------
(* Text: Display of integers and socket addresses, and the bounded write *)

Min(a, b) == IF a < b THEN a ELSE b

RECURSIVE Digits(_)
\* decimal Display of an unsigned integer, as ASCII bytes
Digits(n) == IF n < 10 THEN <<48 + n>> ELSE Digits(n \div 10) \o <<48 + (n % 10)>>

\* Display of a SocketAddr::V4: a.b.c.d:port
FormatAddr(r) ==
    Digits(r.ip[1]) \o <<46>> \o Digits(r.ip[2]) \o <<46>> \o Digits(r.ip[3]) \o <<46>>
        \o Digits(r.ip[4]) \o <<58>> \o Digits(r.port)

\* "you: "
TxtYou == <<121, 111, 117, 58, 32>>

\* " | connection_number: "
TxtConn == <<32, 124, 32, 99, 111, 110, 110, 101, 99, 116, 105, 111, 110, 95, 110,
             117, 109, 98, 101, 114, 58, 32>>

\* " | bytes: "
TxtBytes == <<32, 124, 32, 98, 121, 116, 101, 115, 58, 32>>

\* " | packet_number: "
TxtPkt == <<32, 124, 32, 112, 97, 99, 107, 101, 116, 95, 110, 117, 109, 98, 101, 114, 58, 32>>

\* the write has gone past the end of the buffer
CursorWriteNoLimit(buf, text) ==
    text \o SubSeq(buf, Min(Len(text), Len(buf)) + 1, Len(buf))

\* write!(cursor, ..) at position 0 of a buffer: the bytes that fit replace the
\* buffer's head, the rest of the text is dropped and the error is ignored (let _ =)
CursorWrite(buf, text) ==
    LET n == Min(Len(text), Len(buf))
    IN  SubSeq(text, 1, n) \o SubSeq(buf, n + 1, Len(buf))

\* cursor.position() after that write
CursorPosition(buf, text) == Min(Len(text), Len(buf))

\* io::Result of write!: write_all of a Cursor over a slice fails with WriteZero
\* once the slice is full and bytes are left
CursorResult(buf, text) == IF Len(text) > Len(buf) THEN "WriteZero" ELSE "Ok"

\* no write in progress
NoCursor == [buf |-> <<>>, text |-> <<>>, out |-> <<>>, pos |-> 0, res |-> "none",
             pc |-> "idle"]

Zeros(n) == [k \in 1..n |-> 0]

TcpText(remote, counter) == TxtYou \o FormatAddr(remote) \o TxtConn \o Digits(counter)

\* the 256 bytes handed to write_all
TcpResponse(remote, counter) == CursorWrite(Zeros(TCP_BUF_SIZE), TcpText(remote, counter))

UdpText(remote, buf_len, counter) ==
    TxtYou \o FormatAddr(remote) \o TxtBytes \o Digits(buf_len) \o TxtPkt \o Digits(counter)

\* &buf[..len]: the datagram handed to send_to. The bytes of buf behind the
\* text (the received datagram) never reach the reply, so buf is any 1400 bytes.
UdpReply(remote, buf_len, counter) ==
    LET buf  == Zeros(UDP_BUF_SIZE)
        text == UdpText(remote, buf_len, counter)
    IN  SubSeq(CursorWrite(buf, text), 1, CursorPosition(buf, text))

Remotes == { [ip |-> <<203, 0, 113, 5>>, port |-> 40000],
             [ip |-> <<10, 0, 0, 1>>, port |-> 9] }

DatagramLens == {4, UDP_BUF_SIZE}

-----------------------------------------------------------------------------
(* args.rs: the command line *)

Prog == "whereyoufrom"

Tokens == {"", "-h", "-V", "-v", "-s", "-t", "-u", "--Listen-Udp", "-", " - ",
           "1.2.3.4", "localhost", "bad"}

\* str::eq_ignore_ascii_case against a lower-case option name
EqIgnoreAsciiCase(arg, name) ==
    \/ arg = name
    \/ name = "--listen-udp" /\ arg = "--Listen-Udp"

\* str::trim
Trim(s) == IF s = " - " THEN "-" ELSE s

Addr(host, port) == [host |-> host, port |-> port]

\* str::to_socket_addrs: [kind, addrs]. A text with no ":port" is InvalidInput;
\* a host that does not resolve is another error; a host name may resolve to
\* several addresses.
ToSocketAddrs(s) ==
    CASE s = "1.2.3.4:6969"   -> [kind |-> "ok", addrs |-> <<Addr("1.2.3.4", DEFAULT_PORT)>>]
      [] s = "localhost:6969" -> [kind |-> "ok", addrs |-> <<Addr("::1", DEFAULT_PORT),
                                                             Addr("127.0.0.1", DEFAULT_PORT)>>]
      [] s = "bad:6969"       -> [kind |-> "error", addrs |-> <<>>]
      [] OTHER                 -> [kind |-> "invalid_input", addrs |-> <<>>]

\* format!("{arg2}:{default_port}") with default_port = DEFAULT_PORT
WithDefaultPort(arg2) == arg2 \o ":6969"

Contains(vec, x) == \E k \in 1..Len(vec) : vec[k] = x

RECURSIVE PushNew(_, _)
\* for sockaddr in iter { if !result_vec.contains(&sockaddr) { push } }
PushNew(vec, addrs) ==
    IF addrs = <<>> THEN vec
    ELSE PushNew(IF Contains(vec, Head(addrs)) THEN vec ELSE Append(vec, Head(addrs)),
                 Tail(addrs))

\* parse_socket_arg: [ok, vec, err]; has_arg2 = FALSE is maybe_arg2 = None
parse_socket_arg(result_vec, has_arg2, arg2) ==
    IF ~has_arg2 THEN [ok |-> FALSE, vec |-> result_vec, err |-> "UnexpectedEnd"]
    ELSE LET first  == ToSocketAddrs(arg2)
             second == ToSocketAddrs(WithDefaultPort(arg2))
             found  == IF first.kind = "ok" THEN first
                       ELSE IF first.kind = "invalid_input" THEN second
                       ELSE first
         IN  IF found.kind = "ok"
             THEN [ok |-> TRUE, vec |-> PushNew(result_vec, found.addrs), err |-> ""]
             ELSE [ok |-> FALSE, vec |-> result_vec, err |-> "InvalidSocketAddress"]

Request(kind, err, st) ==
    [kind |-> kind, err |-> err, verbose |-> st.verbose, silent |-> st.silent,
     tcp_addresses |-> st.tcp, udp_addresses |-> st.udp]

StartupArguments_empty ==
    [verbose |-> FALSE, silent |-> FALSE, tcp |-> <<>>, udp |-> <<>>,
     tcp_specified |-> FALSE, udp_specified |-> FALSE]

Pending == Request("Pending", "", StartupArguments_empty)

DefaultAddresses == <<Addr("::", DEFAULT_PORT), Addr("0.0.0.0", DEFAULT_PORT)>>

NoSocketsNever(tcp, udp) == FALSE

\* args.rs:191
NoSockets(tcp, udp) == udp = <<>> /\ tcp = <<>>

\* the code behind the while loop of parse_arguments
ParseEnd(st) ==
    LET tcp == IF st.tcp_specified THEN st.tcp ELSE st.tcp \o DefaultAddresses
        udp == IF st.udp_specified THEN st.udp ELSE st.udp \o DefaultAddresses
        res == [st EXCEPT !.tcp = tcp, !.udp = udp]
    IN  IF NoSockets(tcp, udp)
        THEN Request("Error", "NoSocketsSpecified", res)
        ELSE Request("Run", "", res)

RECURSIVE ParseLoop(_, _, _)
\* the while loop of parse_arguments, from args[i] on
ParseLoop(args, i, st) ==
    IF i > Len(args) THEN ParseEnd(st)
    ELSE LET arg      == args[i]
             has_arg2 == i + 1 <= Len(args)
             arg2     == IF has_arg2 THEN args[i + 1] ELSE ""
             sentinel == has_arg2 /\ Trim(arg2) = "-"
         IN  IF arg = "" THEN ParseLoop(args, i + 1, st)
             ELSE IF arg = "-h" \/ EqIgnoreAsciiCase(arg, "--help")
                  THEN Request("Help", "", st)
             ELSE IF arg = "-V" \/ EqIgnoreAsciiCase(arg, "--version")
                  THEN Request("Version", "", st)
             ELSE IF arg = "-v" \/ EqIgnoreAsciiCase(arg, "--verbose")
                  THEN ParseLoop(args, i + 1, [st EXCEPT !.verbose = TRUE])
             ELSE IF arg = "-s" \/ EqIgnoreAsciiCase(arg, "--silent")
                  THEN ParseLoop(args, i + 1, [st EXCEPT !.silent = TRUE])
             ELSE IF arg = "-t" \/ EqIgnoreAsciiCase(arg, "--listen-tcp")
                  THEN LET st1 == [st EXCEPT !.tcp_specified = TRUE]
                           r   == parse_socket_arg(st.tcp, has_arg2, arg2)
                       IN  IF sentinel THEN ParseLoop(args, i + 2, st1)
                           ELSE IF r.ok
                                THEN ParseLoop(args, i + 2, [st1 EXCEPT !.tcp = r.vec])
                                ELSE Request("Error", "TcpListenError", st1)
             ELSE IF arg = "-u" \/ EqIgnoreAsciiCase(arg, "--listen-udp")
                  THEN LET st1 == [st EXCEPT !.udp_specified = TRUE]
                           r   == parse_socket_arg(st.udp, has_arg2, arg2)
                       IN  IF sentinel THEN ParseLoop(args, i + 2, st1)
                           ELSE IF r.ok
                                THEN ParseLoop(args, i + 2, [st1 EXCEPT !.udp = r.vec])
                                ELSE Request("Error", "UdpListenError", st1)
             ELSE Request("Error", "UnknownArgument", st)

\* parse_arguments(env::args()): args[1] is the program name and is skipped
parse_arguments(args) == ParseLoop(args, 2, StartupArguments_empty)


-----------------------------------------------------------------------------
(* server.rs: binding *)

BindOutcomes == {"ok", "bind_failed", "set_nonblocking_failed", "from_std_failed"}

RECURSIVE BindFromStopAtFailure(_, _, _, _)
\* the for loop leaving at the first address that fails
BindFromStopAtFailure(addresses, outcome, i, acc) ==
    IF i > Len(addresses) THEN acc
    ELSE LET tried == Append(acc.attempts, <<addresses[i], outcome[i]>>)
         IN  IF outcome[i] = "ok"
             THEN BindFromStopAtFailure(addresses, outcome, i + 1,
                           [bound |-> Append(acc.bound, addresses[i]), attempts |-> tried])
             ELSE [bound |-> acc.bound, attempts |-> tried]

RECURSIVE BindFrom(_, _, _, _)
\* the for loop of bind_tcp_listeners / bind_udp_sockets from addresses[i] on:
\* every failure is a `continue`, only a fully converted socket is pushed
BindFrom(addresses, outcome, i, acc) ==
    IF i > Len(addresses) THEN acc
    ELSE LET tried == Append(acc.attempts, <<addresses[i], outcome[i]>>)
         IN  IF outcome[i] = "ok"
             THEN BindFrom(addresses, outcome, i + 1,
                           [bound |-> Append(acc.bound, addresses[i]), attempts |-> tried])
             ELSE BindFrom(addresses, outcome, i + 1,
                           [bound |-> acc.bound, attempts |-> tried])

bind_tcp_listeners(addresses, outcome) ==
    BindFrom(addresses, outcome, 1, [bound |-> <<>>, attempts |-> <<>>])

bind_udp_sockets(addresses, outcome) ==
    BindFrom(addresses, outcome, 1, [bound |-> <<>>, attempts |-> <<>>])

NothingBoundEither(tcp, udp) == tcp = <<>> \/ udp = <<>>

\* server.rs:20
NothingBound(tcp, udp) == tcp = <<>> /\ udp = <<>>

NewLoop(pc) == [pc |-> pc, counter |-> 0, error_counter |-> 0]

\* observed history of one loop: accept/receive operations done, how many of
\* them failed, the failures in a row at the end, the numbers given to the
\* first and to the latest success, replies begun and replies resolved
NewObs == [ops |-> 0, errs |-> 0, streak |-> 0, first |-> 0, last |-> 0,
           begun |-> 0, resolved |-> 0]

\* run_server up to its only await: bind, abort if nothing is bound, else spawn
\* one task per listener and per socket
Startup ==
    /\ phase = "parsed"
    /\ request.kind = "Run"
    /\ \E toc \in [1..Len(request.tcp_addresses) -> BindOutcomes],
          uoc \in [1..Len(request.udp_addresses) -> BindOutcomes] :
          LET t == bind_tcp_listeners(request.tcp_addresses, toc)
              u == bind_udp_sockets(request.udp_addresses, uoc)
              started == ~NothingBound(t.bound, u.bound)
              nt == IF started THEN Len(t.bound) ELSE 0
              nu == IF started THEN Len(u.bound) ELSE 0
          IN  /\ tcp_attempts' = t.attempts
              /\ udp_attempts' = u.attempts
              /\ tcp_listeners' = t.bound
              /\ udp_sockets' = u.bound
              /\ phase' = IF started THEN "running" ELSE "exited"
              /\ exit_code' = IF started THEN exit_code ELSE 1
              /\ tcp_loop' = [i \in 1..nt |-> NewLoop("accepting")]
              /\ udp_loop' = [j \in 1..nu |-> NewLoop("receiving")]
              /\ tcp_handlers' = [i \in 1..nt |-> <<>>]
              /\ tcp_finished' = [i \in 1..nt |-> <<>>]
              /\ tcp_obs' = [i \in 1..nt |-> NewObs]
              /\ udp_obs' = [j \in 1..nu |-> NewObs]
              /\ udp_log' = [j \in 1..nu |-> <<>>]
    /\ UNCHANGED <<argVars, cursor, peers>>

\* main.rs:33-37: the runtime cannot be built; main prints and returns
RuntimeBuildFails ==
    /\ phase = "parsed"
    /\ request.kind = "Run"
    /\ phase' = "exited"
    /\ exit_code' = 0
    /\ UNCHANGED <<argVars, cursor, peers, srvVars>>

-----------------------------------------------------------------------------
(* server.rs: the transport loops *)

RECURSIVE SumOps(_, _)
SumOps(obs, n) == IF n = 0 THEN 0 ELSE obs[n].ops + SumOps(obs, n - 1)

TotalOps == SumOps(tcp_obs, Len(tcp_obs)) + SumOps(udp_obs, Len(udp_obs))

NextCounterStuck(counter) == counter

\* counter += 1 at the head of each loop iteration (server.rs:127, 172)
NextCounter(counter) == counter + 1

\* server.rs:129: the Ok arm of accept leaves error_counter as it is
TcpErrorsAfterAccept(error_counter) == error_counter

UdpErrorsAfterRecvKept(error_counter) == error_counter

\* server.rs:175: the Ok arm of recv_from sets error_counter = 0
UdpErrorsAfterRecv(error_counter) == 0

ThresholdOffByOne(error_counter) == error_counter > ErrorThreshold

\* server.rs:133, 181: if error_counter >= 10 { break; }
ThresholdReached(error_counter) == error_counter >= ErrorThreshold

\* the Err arm with the counter incremented only after a success
LoopAfterErrorKeepsCounter(loop, live) ==
    LET e == loop.error_counter + 1
    IN  [pc |-> IF ThresholdReached(e) THEN "closed" ELSE live,
         counter |-> loop.counter,
         error_counter |-> e]

\* the Err arm of accept / recv_from, and the code after the loop
LoopAfterError(loop, live) ==
    LET e == loop.error_counter + 1
    IN  [pc |-> IF ThresholdReached(e) THEN "closed" ELSE live,
         counter |-> NextCounter(loop.counter),
         error_counter |-> e]

ObsOk(o, number) ==
    [o EXCEPT !.ops = @ + 1, !.streak = 0, !.last = number, !.begun = @ + 1,
              !.first = IF o.ops = o.errs THEN number ELSE @]

ObsErr(o) == [o EXCEPT !.ops = @ + 1, !.errs = @ + 1, !.streak = @ + 1]

\* async move { .. }: the task owns stream, remote_address and a copy of counter
NewHandler(remote, counter) ==
    [n |-> counter, remote |-> remote, pc |-> "write", written |-> <<>>,
     wres |-> "none", reads |-> 0, writes |-> 0]

\* the accept loop with the response awaited inside the iteration
TcpAcceptOkAwaitsHandler(i, remote) ==
    /\ phase = "running"
    /\ tcp_loop[i].pc = "accepting"
    /\ tcp_handlers[i] = <<>>
    /\ TotalOps < MaxOps
    /\ remote \in peers
    /\ peers' = peers \ {remote}
    /\ LET c == NextCounter(tcp_loop[i].counter)
       IN  /\ tcp_loop' = [tcp_loop EXCEPT ![i].counter = c,
                              ![i].error_counter = TcpErrorsAfterAccept(@)]
           /\ tcp_handlers' = [tcp_handlers EXCEPT ![i] = Append(@, NewHandler(remote, c))]
           /\ tcp_obs' = [tcp_obs EXCEPT ![i] = ObsOk(@, c)]
    /\ UNCHANGED <<argVars, cursor, phase, exit_code, tcp_attempts, udp_attempts, tcp_listeners,
                   udp_sockets, udp_loop, tcp_finished, udp_obs, udp_log>>

\* one iteration of run_tcp_server whose accept succeeds: the connection task
\* is spawned with the current counter and the loop goes round
TcpAcceptOk(i, remote) ==
    /\ phase = "running"
    /\ tcp_loop[i].pc = "accepting"
    /\ TotalOps < MaxOps
    /\ remote \in peers
    /\ peers' = peers \ {remote}
    /\ LET c == NextCounter(tcp_loop[i].counter)
       IN  /\ tcp_loop' = [tcp_loop EXCEPT ![i].counter = c,
                              ![i].error_counter = TcpErrorsAfterAccept(@)]
           /\ tcp_handlers' = [tcp_handlers EXCEPT ![i] = Append(@, NewHandler(remote, c))]
           /\ tcp_obs' = [tcp_obs EXCEPT ![i] = ObsOk(@, c)]
    /\ UNCHANGED <<argVars, cursor, phase, exit_code, tcp_attempts, udp_attempts, tcp_listeners,
                   udp_sockets, udp_loop, tcp_finished, udp_obs, udp_log>>

\* the accept failure with error_counter shared by every listener task
TcpAcceptErrShared(i) ==
    /\ phase = "running"
    /\ tcp_loop[i].pc = "accepting"
    /\ TotalOps < MaxOps
    /\ tcp_loop' = [k \in DOMAIN tcp_loop |->
                       IF k = i THEN LoopAfterError(tcp_loop[i], "accepting")
                       ELSE [tcp_loop[k] EXCEPT !.error_counter = tcp_loop[i].error_counter + 1]]
    /\ tcp_obs' = [tcp_obs EXCEPT ![i] = ObsErr(@)]
    /\ UNCHANGED <<argVars, cursor, peers, phase, exit_code, tcp_attempts, udp_attempts, tcp_listeners,
                   udp_sockets, udp_loop, tcp_handlers, tcp_finished, udp_obs, udp_log>>

\* one iteration of run_tcp_server whose accept fails
TcpAcceptErr(i) ==
    /\ phase = "running"
    /\ tcp_loop[i].pc = "accepting"
    /\ TotalOps < MaxOps
    /\ tcp_loop' = [tcp_loop EXCEPT ![i] = LoopAfterError(@, "accepting")]
    /\ tcp_obs' = [tcp_obs EXCEPT ![i] = ObsErr(@)]
    /\ UNCHANGED <<argVars, cursor, peers, phase, exit_code, tcp_attempts, udp_attempts, tcp_listeners,
                   udp_sockets, udp_loop, tcp_handlers, tcp_finished, udp_obs, udp_log>>

WriteResults == {"ok", "err"}

HandlerAfterWriteQuitOnError(h, res) ==
    [h EXCEPT !.pc = IF res = "ok" THEN "shutdown" ELSE "return",
              !.written = TcpResponse(h.remote, h.n),
              !.wres = res, !.writes = @ + 1]

\* server.rs:142-156: the buffer is built and write_all resolves, either way
\* the task goes on to stream.shutdown()
HandlerAfterWrite(h, res) ==
    [h EXCEPT !.pc = "shutdown",
              !.written = TcpResponse(h.remote, h.n),
              !.wres = res, !.writes = @ + 1]

\* the connection task up to the end of write_all
HandlerWrite(i, k, res) ==
    /\ phase = "running"
    /\ tcp_handlers[i][k].pc = "write"
    /\ tcp_handlers' = [tcp_handlers EXCEPT ![i][k] = HandlerAfterWrite(@, res)]
    /\ UNCHANGED <<argVars, cursor, peers, phase, exit_code, tcp_attempts, udp_attempts, tcp_listeners,
                   udp_sockets, tcp_loop, udp_loop, tcp_finished, tcp_obs, udp_obs, udp_log>>

Without(q, k) == SubSeq(q, 1, k - 1) \o SubSeq(q, k + 1, Len(q))

\* server.rs:158: stream.shutdown() resolves (its result is dropped), the task ends
HandlerShutdown(i, k) ==
    /\ phase = "running"
    /\ tcp_handlers[i][k].pc = "shutdown"
    /\ tcp_handlers' = [tcp_handlers EXCEPT ![i] = Without(@, k)]
    /\ tcp_finished' = [tcp_finished EXCEPT ![i] =
                           Append(@, tcp_handlers[i][k].n)]
    /\ UNCHANGED <<argVars, cursor, peers, phase, exit_code, tcp_attempts, udp_attempts, tcp_listeners,
                   udp_sockets, tcp_loop, udp_loop, tcp_obs, udp_obs, udp_log>>

UdpAfterRecvPcDetached == "receiving"

\* server.rs:193: the loop awaits send_to before it goes round
UdpAfterRecvPc == "sending"

\* one iteration of run_udp_server whose recv_from succeeds, up to the call of send_to
UdpRecvOk(j, remote, buf_len) ==
    /\ phase = "running"
    /\ udp_loop[j].pc = "receiving"
    /\ TotalOps < MaxOps
    /\ remote \in peers
    /\ peers' = peers \ {remote}
    /\ LET c == NextCounter(udp_loop[j].counter)
       IN  /\ udp_loop' = [udp_loop EXCEPT ![j].counter = c,
                              ![j].error_counter = UdpErrorsAfterRecv(@),
                              ![j].pc = UdpAfterRecvPc]
           /\ udp_log' = [udp_log EXCEPT ![j] =
                             <<[remote |-> remote, buf_len |-> buf_len, to |-> remote,
                                data |-> UdpReply(remote, buf_len, c),
                                res |-> "pending"]>>]
           /\ udp_obs' = [udp_obs EXCEPT ![j] = ObsOk(@, c)]
    /\ UNCHANGED <<argVars, cursor, phase, exit_code, tcp_attempts, udp_attempts, tcp_listeners,
                   udp_sockets, tcp_loop, tcp_handlers, tcp_finished, tcp_obs>>

\* the receive failure with the process ending when the last loop has closed
UdpRecvErrEndsProcess(j) ==
    LET after == LoopAfterError(udp_loop[j], "receiving")
        last  == /\ after.pc = "closed"
                 /\ \A k \in DOMAIN udp_loop \ {j} : udp_loop[k].pc = "closed"
                 /\ \A i \in DOMAIN tcp_loop : tcp_loop[i].pc = "closed"
    IN  /\ phase = "running"
        /\ udp_loop[j].pc = "receiving"
        /\ TotalOps < MaxOps
        /\ udp_loop' = [udp_loop EXCEPT ![j] = after]
        /\ udp_obs' = [udp_obs EXCEPT ![j] = ObsErr(@)]
        /\ phase' = IF last THEN "exited" ELSE phase
        /\ exit_code' = IF last THEN 0 ELSE exit_code
        /\ UNCHANGED <<argVars, cursor, peers, tcp_attempts, udp_attempts, tcp_listeners,
                       udp_sockets, tcp_loop, tcp_handlers, tcp_finished, tcp_obs, udp_log>>

\* one iteration of run_udp_server whose recv_from fails
UdpRecvErr(j) ==
    /\ phase = "running"
    /\ udp_loop[j].pc = "receiving"
    /\ TotalOps < MaxOps
    /\ udp_loop' = [udp_loop EXCEPT ![j] = LoopAfterError(@, "receiving")]
    /\ udp_obs' = [udp_obs EXCEPT ![j] = ObsErr(@)]
    /\ UNCHANGED <<argVars, cursor, peers, phase, exit_code, tcp_attempts, udp_attempts, tcp_listeners,
                   udp_sockets, tcp_loop, tcp_handlers, tcp_finished, tcp_obs, udp_log>>

\* Ok(len), Ok(another length), Err
SendResults == {"ok", "short", "err"}

\* a send that failed or fell short counted as one more consecutive error
UdpSendDoneCountsError(j, res) ==
    /\ phase = "running"
    /\ udp_loop[j].pc = "sending"
    /\ udp_loop' = [udp_loop EXCEPT ![j].pc = "receiving",
                       ![j].error_counter = IF res = "ok" THEN @ ELSE @ + 1]
    /\ udp_log' = [udp_log EXCEPT ![j][1].res = res]
    /\ udp_obs' = [udp_obs EXCEPT ![j].resolved = @ + 1]
    /\ UNCHANGED <<argVars, cursor, peers, phase, exit_code, tcp_attempts, udp_attempts, tcp_listeners,
                   udp_sockets, tcp_loop, tcp_handlers, tcp_finished, tcp_obs>>

\* server.rs:193-202: send_to resolves; every arm only prints, the loop goes round
UdpSendDone(j, res) ==
    /\ phase = "running"
    /\ udp_loop[j].pc = "sending"
    /\ udp_loop' = [udp_loop EXCEPT ![j].pc = "receiving"]
    /\ udp_log' = [udp_log EXCEPT ![j][1].res = res]
    /\ udp_obs' = [udp_obs EXCEPT ![j].resolved = @ + 1]
    /\ UNCHANGED <<argVars, cursor, peers, phase, exit_code, tcp_attempts, udp_attempts, tcp_listeners,
                   udp_sockets, tcp_loop, tcp_handlers, tcp_finished, tcp_obs>>

AbortSkipped(pc) == pc

\* JoinHandle::abort: a task that has not finished is cancelled where it waits
Abort(pc) == IF pc = "closed" THEN "closed" ELSE "aborted"

\* server.rs:47-52 and main.rs:35-38: ctrl_c resolves, every handle is aborted,
\* run_server returns, block_on returns and main ends
CtrlC ==
    /\ phase = "running"
    /\ tcp_loop' = [i \in DOMAIN tcp_loop |-> [tcp_loop[i] EXCEPT !.pc = Abort(@)]]
    /\ udp_loop' = [j \in DOMAIN udp_loop |-> [udp_loop[j] EXCEPT !.pc = Abort(@)]]
    /\ phase' = "exited"
    /\ exit_code' = 0
    /\ UNCHANGED <<argVars, cursor, peers, tcp_attempts, udp_attempts, tcp_listeners, udp_sockets,
                   tcp_handlers, tcp_finished, tcp_obs, udp_obs, udp_log>>

-----------------------------------------------------------------------------
(* main.rs: from the command line to run_server *)

RECURSIVE SeqsUpTo(_, _)
SeqsUpTo(S, n) ==
    IF n = 0 THEN {<<>>}
    ELSE LET shorter == SeqsUpTo(S, n - 1)
         IN  shorter \cup {Append(q, x) : q \in {r \in shorter : Len(r) = n - 1}, x \in S}

\* env::args(): the program name and up to n arguments
Argvs(n) == {<<Prog>> \o q : q \in SeqsUpTo(Tokens, n)}

\* command lines the server is started with
ServerArgvs ==
    { <<Prog, "-t", "1.2.3.4", "-u", "-">>,
      <<Prog, "-t", "-", "-u", "1.2.3.4">>,
      <<Prog, "-t", "1.2.3.4", "-u", "1.2.3.4">>,
      <<Prog, "-t", "localhost", "-u", "-">>,
      <<Prog, "-u", "localhost", "-t", "-">> }

Idle ==
    /\ exit_code = -1
    /\ tcp_attempts = <<>> /\ udp_attempts = <<>>
    /\ tcp_listeners = <<>> /\ udp_sockets = <<>>
    /\ tcp_loop = <<>> /\ udp_loop = <<>>
    /\ tcp_handlers = <<>> /\ tcp_finished = <<>>
    /\ tcp_obs = <<>> /\ udp_obs = <<>> /\ udp_log = <<>>
    /\ peers = Remotes

\* main.rs:12-31: parse; an error exits with 1, help and version print and
\* return, a Run request goes on to the runtime
Main ==
    /\ phase = "parsing"
    /\ request' = parse_arguments(argv)
    /\ phase' = IF request'.kind = "Run" THEN "parsed" ELSE "exited"
    /\ exit_code' = IF request'.kind = "Run" THEN exit_code
                    ELSE IF request'.kind = "Error" THEN 1 ELSE 0
    /\ UNCHANGED <<argv, cursor, peers, srvVars>>

\* the server, started from a parsed command line
Init ==
    /\ argv \in ServerArgvs
    /\ request = parse_arguments(argv)
    /\ phase = "parsed"
    /\ Idle
    /\ cursor = NoCursor

Next ==
    \/ Startup
    \/ RuntimeBuildFails
    \/ \E i \in DOMAIN tcp_loop, r \in Remotes : TcpAcceptOk(i, r)
    \/ \E i \in DOMAIN tcp_loop : TcpAcceptErr(i)
    \/ \E i \in DOMAIN tcp_handlers : \E k \in DOMAIN tcp_handlers[i], res \in WriteResults :
          HandlerWrite(i, k, res)
    \/ \E i \in DOMAIN tcp_handlers : \E k \in DOMAIN tcp_handlers[i] : HandlerShutdown(i, k)
    \/ \E j \in DOMAIN udp_loop, r \in Remotes, n \in DatagramLens : UdpRecvOk(j, r, n)
    \/ \E j \in DOMAIN udp_loop : UdpRecvErr(j)
    \/ \E j \in DOMAIN udp_loop, res \in SendResults : UdpSendDone(j, res)
    \/ CtrlC

Spec == Init /\ [][Next]_vars

\* the command line alone
InitArgs ==
    /\ argv \in Argvs(MaxArgs)
    /\ request = Pending
    /\ phase = "parsing"
    /\ Idle
    /\ cursor = NoCursor

NextArgs == Main

SpecArgs == InitArgs /\ [][NextArgs]_vars


\* one TCP listener and one UDP socket fed the same outcomes: each step is one
\* iteration of run_tcp_server and one of run_udp_server with the same result
InitLockstep ==
    /\ argv = <<Prog, "-t", "1.2.3.4", "-u", "1.2.3.4">>
    /\ request = parse_arguments(argv)
    /\ phase = "parsed"
    /\ Idle
    /\ cursor = NoCursor

BothLive ==
    /\ phase = "running"
    /\ DOMAIN tcp_loop = {1} /\ DOMAIN udp_loop = {1}
    /\ tcp_loop[1].pc = "accepting"
    /\ udp_loop[1].pc = "receiving"
    /\ tcp_obs[1].ops < MaxOps

\* accept and recv_from both succeed (the same peer connects and sends)
LockstepOk(remote, buf_len) ==
    /\ BothLive
    /\ remote \in peers
    /\ peers' = peers \ {remote}
    /\ LET c == NextCounter(tcp_loop[1].counter)
       IN  /\ tcp_loop' = [tcp_loop EXCEPT ![1].counter = c,
                              ![1].error_counter = TcpErrorsAfterAccept(@)]
           /\ tcp_handlers' = [tcp_handlers EXCEPT ![1] = Append(@, NewHandler(remote, c))]
           /\ tcp_obs' = [tcp_obs EXCEPT ![1] = ObsOk(@, c)]
    /\ LET c == NextCounter(udp_loop[1].counter)
       IN  /\ udp_loop' = [udp_loop EXCEPT ![1].counter = c,
                              ![1].error_counter = UdpErrorsAfterRecv(@),
                              ![1].pc = UdpAfterRecvPc]
           /\ udp_log' = [udp_log EXCEPT ![1] =
                             <<[remote |-> remote, buf_len |-> buf_len, to |-> remote,
                                data |-> UdpReply(remote, buf_len, c),
                                res |-> "pending"]>>]
           /\ udp_obs' = [udp_obs EXCEPT ![1] = ObsOk(@, c)]
    /\ UNCHANGED <<argVars, cursor, phase, exit_code, tcp_attempts, udp_attempts, tcp_listeners,
                   udp_sockets, tcp_finished>>

\* accept and recv_from both fail
LockstepErr ==
    /\ BothLive
    /\ tcp_loop' = [tcp_loop EXCEPT ![1] = LoopAfterError(@, "accepting")]
    /\ tcp_obs' = [tcp_obs EXCEPT ![1] = ObsErr(@)]
    /\ udp_loop' = [udp_loop EXCEPT ![1] = LoopAfterError(@, "receiving")]
    /\ udp_obs' = [udp_obs EXCEPT ![1] = ObsErr(@)]
    /\ UNCHANGED <<argVars, cursor, peers, phase, exit_code, tcp_attempts, udp_attempts,
                   tcp_listeners, udp_sockets, tcp_handlers, tcp_finished, udp_log>>

NextLockstep ==
    \/ Startup
    \/ \E r \in Remotes, n \in DatagramLens : LockstepOk(r, n)
    \/ LockstepErr
    \/ \E j \in DOMAIN udp_loop, res \in SendResults : UdpSendDone(j, res)
    \/ \E i \in DOMAIN tcp_handlers : \E k \in DOMAIN tcp_handlers[i], res \in WriteResults :
          HandlerWrite(i, k, res)
    \/ \E i \in DOMAIN tcp_handlers : \E k \in DOMAIN tcp_handlers[i] : HandlerShutdown(i, k)

SpecLockstep == InitLockstep /\ [][NextLockstep]_vars


\* values of counter (a u64 in the program) for the formatted text
WriteCounters == {1, 2147483647}

\* <<buffer, text>> of one write!: the connection task's zeroed 256 bytes and
\* the socket task's 1400 bytes with the texts the program formats, and short
\* buffers with texts of every length around their capacity
WriteInputs ==
    {<<Zeros(TCP_BUF_SIZE), TcpText(r, c)>> : r \in Remotes, c \in WriteCounters}
        \cup {<<Zeros(UDP_BUF_SIZE), UdpText(r, n, c)>> :
                 r \in Remotes, n \in DatagramLens, c \in WriteCounters}
        \cup (SeqsUpTo({0, 7}, MaxCap) \X SeqsUpTo({65, 66}, MaxText))

\* a cursor at position 0 of a buffer and the text to be formatted into it
InitWrite ==
    /\ argv = <<Prog>>
    /\ request = Pending
    /\ phase = "parsing"
    /\ Idle
    /\ \E in \in WriteInputs :
          cursor = [buf |-> in[1], text |-> in[2], out |-> <<>>, pos |-> 0,
                    res |-> "none", pc |-> "ready"]

\* let _ = write!(cursor, ..): the buffer and the position afterwards; the
\* io::Result is dropped and the next statement runs
WriteFmt ==
    /\ cursor.pc = "ready"
    /\ cursor' = [cursor EXCEPT !.out = CursorWrite(cursor.buf, cursor.text),
                                !.pos = CursorPosition(cursor.buf, cursor.text),
                                !.res = CursorResult(cursor.buf, cursor.text),
                                !.pc = "written"]
    /\ UNCHANGED <<argVars, peers, phase, exit_code, srvVars>>

NextWrite == WriteFmt

SpecWrite == InitWrite /\ [][NextWrite]_vars

-----------------------------------------------------------------------------
(* Properties *)

TcpIds == DOMAIN tcp_loop

UdpIds == DOMAIN udp_loop

Successes(o) == o.ops - o.errs

\* C1: on every TCP listener, whatever accepts failed before it, the response
\* written for the first successful accept carries connection_number 1.
C1_FirstAcceptIsOne ==
    \A i \in TcpIds : \A k \in DOMAIN tcp_handlers[i] :
        LET h == tcp_handlers[i][k]
        IN  (h.n = tcp_obs[i].first /\ h.writes = 1)
                => h.written = TcpText(h.remote, 1) \o Zeros(TCP_BUF_SIZE - Len(TcpText(h.remote, 1)))

\* C2: on every UDP socket the packet_number of the reply to a datagram is the
\* number of successful receives up to and including it, and every failed
\* receive is counted as an error.
C2_PacketNumberCountsSuccesses ==
    \A j \in UdpIds :
        /\ udp_log[j] # <<>> =>
              LET d == udp_log[j][1]
              IN  d.data = UdpText(d.remote, d.buf_len, Successes(udp_obs[j]))
        /\ udp_loop[j].error_counter <= udp_obs[j].errs

\* the loops present before and after a step
TcpBoth == DOMAIN tcp_obs \cap DOMAIN tcp_obs'

UdpBoth == DOMAIN udp_obs \cap DOMAIN udp_obs'

C3_Step ==
    /\ \A i \in TcpBoth :
          /\ Successes(tcp_obs'[i]) > Successes(tcp_obs[i]) => tcp_obs'[i].last > tcp_obs[i].last
          /\ tcp_loop'[i].counter >= tcp_loop[i].counter
          /\ tcp_loop'[i].counter # tcp_loop[i].counter =>
                /\ \A m \in TcpBoth \ {i} : tcp_loop'[m].counter = tcp_loop[m].counter
                /\ \A m \in UdpBoth : udp_loop'[m].counter = udp_loop[m].counter
    /\ \A j \in UdpBoth :
          /\ Successes(udp_obs'[j]) > Successes(udp_obs[j]) => udp_obs'[j].last > udp_obs[j].last
          /\ udp_loop'[j].counter >= udp_loop[j].counter
          /\ udp_loop'[j].counter # udp_loop[j].counter =>
                /\ \A m \in UdpBoth \ {j} : udp_loop'[m].counter = udp_loop[m].counter
                /\ \A m \in TcpBoth : tcp_loop'[m].counter = tcp_loop[m].counter

\* C3: in each loop the numbers given to successive successes strictly increase
\* (so no two are equal), the counter never goes back while the loop exists,
\* and a step that moves one loop's counter moves no other loop's counter.
C3_CountersIncreasePerLoop ==
    /\ [](\A i \in TcpIds : \A k, m \in DOMAIN tcp_handlers[i] :
             k < m => tcp_handlers[i][k].n < tcp_handlers[i][m].n)
    /\ [][C3_Step]_vars

\* two successes on one listener while another loop has counted on its own
C3_Witness ==
    \E i \in TcpIds, j \in UdpIds :
        /\ Successes(tcp_obs[i]) = 2
        /\ tcp_obs[i].first < tcp_obs[i].last
        /\ udp_loop[j].counter > 0
        /\ udp_loop[j].counter # tcp_loop[i].counter

C4_Closed(loop, obs) == obs.streak >= ErrorThreshold => loop.pc = "closed"

C4_Step ==
    /\ \A i \in TcpBoth :
          /\ tcp_loop[i].pc = "closed" =>
                /\ tcp_loop'[i] = tcp_loop[i]
                /\ tcp_obs'[i] = tcp_obs[i]
                /\ Len(tcp_handlers'[i]) <= Len(tcp_handlers[i])
          /\ (tcp_loop[i].pc # "closed" /\ tcp_loop'[i].pc = "closed") =>
                /\ \A m \in TcpBoth \ {i} : tcp_loop'[m] = tcp_loop[m]
                /\ udp_loop' = udp_loop
                /\ phase' = phase
    /\ \A j \in UdpBoth :
          /\ udp_loop[j].pc = "closed" =>
                /\ udp_loop'[j] = udp_loop[j]
                /\ udp_obs'[j] = udp_obs[j]
                /\ udp_log'[j] = udp_log[j]
          /\ (udp_loop[j].pc # "closed" /\ udp_loop'[j].pc = "closed") =>
                /\ \A m \in UdpBoth \ {j} : udp_loop'[m] = udp_loop[m]
                /\ tcp_loop' = tcp_loop
                /\ phase' = phase

C5_State(j) ==
    udp_obs[j].errs = 0 =>
        /\ udp_obs[j].begun = udp_obs[j].ops
        /\ udp_log[j] # <<>> =>
              LET d == udp_log[j][1]
              IN  /\ d.data = UdpText(d.remote, d.buf_len, udp_obs[j].ops)
                  /\ d.to = d.remote
        /\ udp_loop[j].pc = "receiving" => udp_obs[j].resolved = udp_obs[j].ops
        /\ udp_loop[j].pc = "sending" =>
              /\ udp_obs[j].resolved = udp_obs[j].ops - 1
              /\ udp_log[j][1].res = "pending"
        /\ udp_obs[j].resolved \in {udp_obs[j].ops - 1, udp_obs[j].ops}

C5_Step ==
    \A j \in UdpBoth :
        udp_obs'[j].ops > udp_obs[j].ops => udp_obs[j].resolved = udp_obs[j].begun

\* C5: while a socket has had no receive error, N received datagrams mean N
\* replies handed to send_to, the latest numbered N, and a datagram is received
\* only when the reply to the one before has resolved (sent, short or failed).
C5_UdpRepliesInOrderOneAtATime ==
    /\ [](\A j \in UdpIds : C5_State(j))
    /\ [][C5_Step]_vars

\* two datagrams received without error, both replies resolved
C5_Witness ==
    \E j \in UdpIds :
        /\ udp_obs[j].errs = 0
        /\ udp_obs[j].ops = 2
        /\ udp_obs[j].resolved = 2
        /\ udp_log[j][1].data = UdpText(udp_log[j][1].remote, udp_log[j][1].buf_len, 2)


C6_AfterInterrupt ==
    (phase = "exited" /\ (tcp_loop # <<>> \/ udp_loop # <<>>)) =>
        /\ exit_code = 0
        /\ \A i \in TcpIds : tcp_loop[i].pc \in {"aborted", "closed"}
        /\ \A j \in UdpIds : udp_loop[j].pc \in {"aborted", "closed"}

C6_Step ==
    /\ (phase = "running" /\ phase' = "exited") =>
          /\ exit_code' = 0
          /\ \A i \in TcpIds : tcp_loop'[i].pc = "aborted" \/ tcp_loop[i].pc = "closed"
          /\ \A j \in UdpIds : udp_loop'[j].pc = "aborted" \/ udp_loop[j].pc = "closed"
    /\ phase = "exited" => vars' = vars

\* C6: the interrupt ends the server from any state: every loop task that has
\* not closed is aborted in that step, whatever it was waiting for, the exit
\* code is 0, and nothing is accepted, received, sent or written afterwards.
C6_InterruptCancelsEveryLoop ==
    /\ []C6_AfterInterrupt
    /\ [][C6_Step]_vars

\* the interrupt came while one loop waited for send_to and another was closed
C6_Witness ==
    /\ phase = "exited"
    /\ exit_code = 0
    /\ \E j \in UdpIds : /\ udp_loop[j].pc = "aborted"
                         /\ udp_log[j] # <<>>
                         /\ udp_log[j][1].res = "pending"
    /\ \E i \in TcpIds : tcp_loop[i].pc = "closed"

Bound(attempts) == SelectSeq(attempts, LAMBDA a : a[2] = "ok")

Tried == tcp_attempts # <<>> \/ udp_attempts # <<>>

\* C7: once binding was tried, the process has aborted with status 1 and no
\* loop exactly if no address of either protocol was bound; otherwise it runs
\* (or has run) one loop per bound socket, and only those.
C7_AbortOnlyIfNothingBound ==
    Tried =>
        IF Bound(tcp_attempts) = <<>> /\ Bound(udp_attempts) = <<>>
        THEN /\ phase = "exited" /\ exit_code = 1
             /\ tcp_loop = <<>> /\ udp_loop = <<>>
        ELSE /\ exit_code # 1
             /\ Len(tcp_loop) = Len(Bound(tcp_attempts))
             /\ Len(udp_loop) = Len(Bound(udp_attempts))
             /\ tcp_listeners = [k \in 1..Len(tcp_loop) |-> Bound(tcp_attempts)[k][1]]
             /\ udp_sockets = [k \in 1..Len(udp_loop) |-> Bound(udp_attempts)[k][1]]

\* TCP failed to bind, UDP bound: the server runs with the UDP loop only
C7_Witness ==
    /\ phase = "running"
    /\ tcp_attempts # <<>> /\ Bound(tcp_attempts) = <<>>
    /\ Len(udp_loop) = 1
    /\ udp_obs[1].ops > 0

\* "you: 203.0.113.5:40000 | connection_number: 1"
C8_Example ==
    <<121, 111, 117, 58, 32, 50, 48, 51, 46, 48, 46, 49, 49, 51, 46, 53, 58, 52, 48,
        48, 48, 48, 32, 124, 32, 99, 111, 110, 110, 101, 99, 116, 105, 111, 110, 95,
        110, 117, 109, 98, 101, 114, 58, 32, 49>>

C8_Handler(h) ==
    /\ h.reads = 0
    /\ h.pc \in {"write", "shutdown"}
    /\ h.pc = "write" <=> h.wres = "none"
    /\ h.pc = "write" => h.writes = 0
    /\ h.pc = "shutdown" =>
          LET text == TcpText(h.remote, h.n)
          IN  /\ h.writes = 1
              /\ Len(h.written) = TCP_BUF_SIZE
              /\ SubSeq(h.written, 1, Len(text)) = text
              /\ \A b \in Len(text) + 1 .. TCP_BUF_SIZE : h.written[b] = 0
              /\ (h.n = 1 /\ h.remote = [ip |-> <<203, 0, 113, 5>>, port |-> 40000])
                    => SubSeq(h.written, 1, Len(C8_Example)) = C8_Example

C8_Step ==
    \A i \in TcpBoth :
        Len(tcp_finished'[i]) > Len(tcp_finished[i]) =>
            \E k \in DOMAIN tcp_handlers[i] :
                /\ tcp_handlers[i][k].pc = "shutdown"
                /\ tcp_handlers[i][k].writes = 1
                /\ tcp_finished'[i] = Append(tcp_finished[i], tcp_handlers[i][k].n)

\* C8: a connection task reads nothing, hands write_all one buffer of 256
\* bytes, the text first and zeros behind it, and goes on to the half-close
\* after that write whether it succeeded or failed; it ends only after it.
C8_OneWriteThenHalfClose ==
    /\ [](\A i \in TcpIds : \A k \in DOMAIN tcp_handlers[i] : C8_Handler(tcp_handlers[i][k]))
    /\ [][C8_Step]_vars

\* a task whose write failed is at the half-close, another has ended after it
C8_Witness ==
    \E i \in TcpIds :
        /\ \E k \in DOMAIN tcp_handlers[i] :
              /\ tcp_handlers[i][k].pc = "shutdown"
              /\ tcp_handlers[i][k].wres = "err"
        /\ tcp_finished[i] # <<>>

IsTcpOption(arg) == arg = "-t" \/ EqIgnoreAsciiCase(arg, "--listen-tcp")

IsUdpOption(arg) == arg = "-u" \/ EqIgnoreAsciiCase(arg, "--listen-udp")

RECURSIVE BothDisabled(_, _, _, _)
\* the command line holds nothing but empty arguments, -v, -s and protocol
\* options followed by the "-" sentinel, and names both protocols
BothDisabled(args, i, tcp_seen, udp_seen) ==
    IF i > Len(args) THEN tcp_seen /\ udp_seen
    ELSE IF args[i] \in {"", "-v", "-s"} THEN BothDisabled(args, i + 1, tcp_seen, udp_seen)
    ELSE IF i + 1 <= Len(args) /\ Trim(args[i + 1]) = "-" /\ IsTcpOption(args[i])
         THEN BothDisabled(args, i + 2, TRUE, udp_seen)
    ELSE IF i + 1 <= Len(args) /\ Trim(args[i + 1]) = "-" /\ IsUdpOption(args[i])
         THEN BothDisabled(args, i + 2, tcp_seen, TRUE)
    ELSE FALSE

\* C9: no Run request has both address lists empty; a command line that only
\* disables both protocols is answered with NoSocketsSpecified and the process
\* exits with 1 before any server is started.
C9_NeverRunWithoutSockets ==
    /\ request.kind = "Run" =>
          ~(request.tcp_addresses = <<>> /\ request.udp_addresses = <<>>)
    /\ (phase # "parsing" /\ BothDisabled(argv, 2, FALSE, FALSE)) =>
          /\ request.kind = "Error"
          /\ request.err = "NoSocketsSpecified"
          /\ phase = "exited"
          /\ exit_code = 1
          /\ tcp_loop = <<>> /\ udp_loop = <<>>

\* "-t - -u -" has been parsed
C9_Witness ==
    /\ argv = <<Prog, "-t", "-", "-u", "-">>
    /\ request.err = "NoSocketsSpecified"

\* C10: a TCP listener is closed by the threshold only when its 10 most recent
\* accepts all failed, and after a successful accept its error counter is 0.
C10_TcpSuccessResetsErrors ==
    \A i \in TcpIds :
        /\ tcp_loop[i].pc = "closed" => tcp_obs[i].streak >= ErrorThreshold
        /\ tcp_loop[i].error_counter = tcp_obs[i].streak

\* C11: in the UDP loop error_counter is the number of failed receives in a
\* row (0 after every successful receive), so a socket closed by the threshold
\* has failed its 10 most recent receives.
C11_UdpSuccessResetsErrors ==
    \A j \in UdpIds :
        /\ udp_loop[j].error_counter = udp_obs[j].streak
        /\ udp_loop[j].pc = "closed" => udp_obs[j].streak >= ErrorThreshold

\* failures, then a success, then 10 failures in a row closed the socket
C11_Witness ==
    \E j \in UdpIds :
        /\ udp_loop[j].pc = "closed"
        /\ Successes(udp_obs[j]) > 0
        /\ udp_obs[j].errs > ErrorThreshold
        /\ udp_obs[j].streak = ErrorThreshold

\* C12: a TCP loop and a UDP loop fed the same outcomes hold the same error
\* counter after every step and are closed after the same step.
C12_SameThresholdSemantics ==
    (DOMAIN tcp_loop = {1} /\ DOMAIN udp_loop = {1} /\ tcp_obs[1].ops = udp_obs[1].ops) =>
        /\ tcp_loop[1].error_counter = udp_loop[1].error_counter
        /\ tcp_loop[1].pc = "closed" <=> udp_loop[1].pc = "closed"

\* the loops a step touches: their locals, their observed history, their
\* connection tasks or reply
C13_TcpTouched ==
    {i \in TcpBoth : \/ tcp_loop'[i] # tcp_loop[i]
                     \/ tcp_obs'[i] # tcp_obs[i]
                     \/ tcp_handlers'[i] # tcp_handlers[i]}

C13_UdpTouched ==
    {j \in UdpBoth : \/ udp_loop'[j] # udp_loop[j]
                     \/ udp_obs'[j] # udp_obs[j]
                     \/ udp_log'[j] # udp_log[j]}

C13_LoopStep ==
    \/ \E i \in TcpBoth : tcp_obs'[i] # tcp_obs[i] \/ tcp_handlers'[i] # tcp_handlers[i]
    \/ \E j \in UdpBoth : udp_obs'[j] # udp_obs[j] \/ udp_log'[j] # udp_log[j]

C13_Step ==
    C13_LoopStep =>
        /\ Cardinality(C13_TcpTouched) + Cardinality(C13_UdpTouched) = 1
        /\ phase' = phase
        /\ exit_code' = exit_code

\* C13: a step of one loop or of one of its connection tasks (a failed accept
\* or receive, a failed send or write, the close at the threshold, and any
\* other) changes no other loop's counters or state and does not end the process.
C13_FailuresStayLocal == [][C13_Step]_vars

\* one listener closed by the threshold and a failed write on the other,
\* which is untouched by both and still accepting
C13_Witness ==
    /\ phase = "running"
    /\ \E i, m \in TcpIds :
          /\ tcp_loop[i].pc = "closed"
          /\ tcp_loop[m].pc = "accepting"
          /\ tcp_loop[m].error_counter = 0
          /\ \E k \in DOMAIN tcp_handlers[m] : tcp_handlers[m][k].wres = "err"

C14_Live(i) == {tcp_handlers[i][k].n : k \in DOMAIN tcp_handlers[i]}

C14_Ended(i) == {tcp_finished[i][k] : k \in DOMAIN tcp_finished[i]}

C14_State(i) ==
    /\ (phase = "running" /\ tcp_loop[i].pc = "accepting" /\ TotalOps < MaxOps) =>
          \A r \in peers : ENABLED TcpAcceptOk(i, r)
    /\ phase = "running" =>
          \A k \in DOMAIN tcp_handlers[i] :
              /\ tcp_handlers[i][k].pc = "write" =>
                    \A res \in WriteResults : ENABLED HandlerWrite(i, k, res)
              /\ tcp_handlers[i][k].pc = "shutdown" => ENABLED HandlerShutdown(i, k)
    /\ Cardinality(C14_Live(i)) = Len(tcp_handlers[i])
    /\ C14_Live(i) \cap C14_Ended(i) = {}

C14_Step ==
    \A i \in TcpBoth :
        /\ \A k \in DOMAIN tcp_handlers[i] :
              LET h == tcp_handlers[i][k]
              IN  \/ \E m \in DOMAIN tcp_handlers'[i] :
                        /\ tcp_handlers'[i][m].n = h.n
                        /\ tcp_handlers'[i][m].remote = h.remote
                  \/ tcp_finished'[i] = Append(tcp_finished[i], h.n)
        /\ C14_Live(i) \cup C14_Ended(i) \subseteq C14_Live(i)' \cup C14_Ended(i)'
        /\ Len(tcp_handlers'[i]) > Len(tcp_handlers[i]) =>
              /\ tcp_handlers'[i][Len(tcp_handlers'[i])].n = tcp_loop'[i].counter
              /\ tcp_loop'[i].pc = "accepting"

\* C14: a listener that is accepting can accept whatever connection tasks are
\* unfinished, every unfinished task can take its next step whatever the
\* others do (so two tasks at the half-close can end in either order), and a
\* task keeps the number and the peer it was given at accept time until it ends.
C14_AcceptNeverWaitsForHandlers ==
    /\ [](\A i \in TcpIds : C14_State(i))
    /\ [][C14_Step]_vars

\* the connection accepted second ended first, its number kept
C14_Witness ==
    \E i \in TcpIds :
        /\ Len(tcp_finished[i]) = 2
        /\ tcp_finished[i][1] > tcp_finished[i][2]
        /\ tcp_finished[i][1] = tcp_obs[i].last
        /\ tcp_finished[i][2] = tcp_obs[i].first

\* the connection accepted first ended first, after the second was accepted
C14_InOrder ==
    \E i \in TcpIds :
        /\ tcp_finished[i] = <<tcp_obs[i].first>>
        /\ Len(tcp_handlers[i]) = 1
        /\ tcp_handlers[i][1].n = tcp_obs[i].last
        /\ tcp_handlers[i][1].pc = "shutdown"

C15_State ==
    /\ \A j \in UdpIds :
          /\ udp_obs[j].begun = Successes(udp_obs[j])
          /\ udp_obs[j].resolved <= udp_obs[j].begun
          /\ udp_obs[j].begun <= udp_obs[j].resolved + 1
          /\ udp_loop[j].pc = "sending" => udp_obs[j].begun = udp_obs[j].resolved + 1
          /\ udp_loop[j].pc \in {"receiving", "closed"} =>
                udp_obs[j].begun = udp_obs[j].resolved
    /\ \A i \in TcpIds :
          /\ Len(tcp_handlers[i]) + Len(tcp_finished[i]) = Successes(tcp_obs[i])
          /\ \A k \in DOMAIN tcp_handlers[i] :
                /\ tcp_handlers[i][k].writes <= 1
                /\ tcp_handlers[i][k].writes = 1 <=> tcp_handlers[i][k].pc = "shutdown"

\* the step in which the send_to of socket j resolves
C15_SendResolves(j) == udp_obs'[j].resolved # udp_obs[j].resolved

\* the step in which the write_all of a connection task of listener i resolves
C15_WriteResolves(i) ==
    \E k \in DOMAIN tcp_handlers[i], m \in DOMAIN tcp_handlers'[i] :
        /\ tcp_handlers'[i][m].n = tcp_handlers[i][k].n
        /\ tcp_handlers'[i][m].writes # tcp_handlers[i][k].writes

C15_Step ==
    /\ \A j \in UdpBoth :
          C15_SendResolves(j) =>
              /\ udp_log'[j][1].res \in SendResults
              /\ udp_log'[j][1].data = udp_log[j][1].data
              /\ udp_obs'[j].resolved = udp_obs[j].resolved + 1
              /\ udp_obs'[j].begun = udp_obs[j].begun
              /\ udp_loop'[j].counter = udp_loop[j].counter
              /\ udp_loop'[j].error_counter = udp_loop[j].error_counter
              /\ udp_loop'[j].pc = "receiving"
    /\ \A i \in TcpBoth :
          C15_WriteResolves(i) =>
              /\ tcp_loop'[i] = tcp_loop[i]
              /\ tcp_obs'[i] = tcp_obs[i]
              /\ Len(tcp_handlers'[i]) = Len(tcp_handlers[i])
              /\ \A k \in DOMAIN tcp_handlers[i] :
                    tcp_handlers'[i][k].writes # tcp_handlers[i][k].writes =>
                        /\ tcp_handlers'[i][k].n = tcp_handlers[i][k].n
                        /\ tcp_handlers[i][k].writes = 0
                        /\ tcp_handlers'[i][k].wres \in WriteResults
                        /\ tcp_handlers'[i][k].pc = "shutdown"

\* C15: one send is begun per received datagram and one write per accepted
\* connection, none is begun again; the step in which a send or a write
\* resolves, with a failure or a short count as with success, changes neither
\* counter of its loop, and the UDP loop is back at its receive.
C15_SendFailureNotCountedNotRetried ==
    /\ []C15_State
    /\ [][C15_Step]_vars

\* a write failed while the listener held a consecutive error and the listener
\* still accepts with that count; a send fell short and the socket then went
\* on to a receive (which failed: one consecutive error, not two)
C15_Witness ==
    /\ \E i \in TcpIds : \E k \in DOMAIN tcp_handlers[i] :
          /\ tcp_handlers[i][k].wres = "err"
          /\ tcp_loop[i].pc = "accepting"
          /\ tcp_loop[i].error_counter = 1
          /\ tcp_obs[i].errs = 1
    /\ \E j \in UdpIds :
          /\ udp_log[j] # <<>>
          /\ udp_log[j][1].res = "short"
          /\ udp_loop[j].pc = "receiving"
          /\ udp_obs[j].streak = 1
          /\ udp_loop[j].error_counter = 1

C16_NoDuplicates(q) == \A a, b \in DOMAIN q : q[a] = q[b] => a = b

\* attempts lists every configured address once, in the configured order
C16_EachOnceInOrder(attempts, addresses) ==
    /\ Len(attempts) = Len(addresses)
    /\ \A k \in DOMAIN attempts :
          /\ attempts[k][1] = addresses[k]
          /\ attempts[k][2] \in BindOutcomes

\* live is the sequence of the addresses whose attempt succeeded
C16_LiveAreTheBound(live, attempts, addresses) ==
    /\ Len(live) = Len(Bound(attempts))
    /\ \A k \in DOMAIN live : live[k] = Bound(attempts)[k][1]
    /\ \A k \in DOMAIN attempts :
          attempts[k][2] = "ok" <=> \E m \in DOMAIN live : live[m] = attempts[k][1]
    /\ \A m \in DOMAIN live : \E k \in DOMAIN addresses : addresses[k] = live[m]
    /\ C16_NoDuplicates(live)

C16_State ==
    /\ ~Tried => tcp_listeners = <<>> /\ udp_sockets = <<>> /\ tcp_loop = <<>> /\ udp_loop = <<>>
    /\ Tried =>
          /\ C16_EachOnceInOrder(tcp_attempts, request.tcp_addresses)
          /\ C16_EachOnceInOrder(udp_attempts, request.udp_addresses)
          /\ C16_LiveAreTheBound(tcp_listeners, tcp_attempts, request.tcp_addresses)
          /\ C16_LiveAreTheBound(udp_sockets, udp_attempts, request.udp_addresses)
          /\ DOMAIN tcp_loop = DOMAIN tcp_listeners
          /\ DOMAIN udp_loop = DOMAIN udp_sockets

C16_Step ==
    Tried =>
        /\ tcp_attempts' = tcp_attempts
        /\ udp_attempts' = udp_attempts
        /\ tcp_listeners' = tcp_listeners
        /\ udp_sockets' = udp_sockets
        /\ DOMAIN tcp_loop' = DOMAIN tcp_loop
        /\ DOMAIN udp_loop' = DOMAIN udp_loop

\* C16: binding tries every configured address of each protocol once and in
\* order whatever the earlier outcomes were, the live sockets are exactly the
\* addresses that bound (no duplicates), there is one loop per live socket,
\* and after binding neither the attempts nor the sockets nor the number of
\* loops ever change.
C16_BindEachOnceOneLoopPerSocket ==
    /\ []C16_State
    /\ [][C16_Step]_vars

\* the first address of a protocol failed to bind, the second bound and its
\* loop has served
C16_Witness ==
    /\ phase = "running"
    /\ \/ /\ Len(tcp_attempts) = 2
          /\ tcp_attempts[1][2] # "ok" /\ tcp_attempts[2][2] = "ok"
          /\ Len(tcp_loop) = 1 /\ Successes(tcp_obs[1]) > 0
       \/ /\ Len(udp_attempts) = 2
          /\ udp_attempts[1][2] # "ok" /\ udp_attempts[2][2] = "ok"
          /\ Len(udp_loop) = 1 /\ Successes(udp_obs[1]) > 0

\* the bytes handed to write_all (the whole buffer) and to send_to (&buf[..len])
C17_TcpWrite == cursor.out

C17_UdpDatagram == SubSeq(cursor.out, 1, cursor.pos)

C17_State ==
    /\ cursor.pc = "ready" => ENABLED WriteFmt
    /\ cursor.pc = "written" =>
          LET cap == Len(cursor.buf)
              fit == Min(Len(cursor.text), cap)
          IN  /\ Len(cursor.out) = cap
              /\ cursor.pos = fit
              /\ \A k \in 1..cap :
                    cursor.out[k] = IF k <= fit THEN cursor.text[k] ELSE cursor.buf[k]
              /\ cursor.res = "WriteZero" <=> Len(cursor.text) > cap
              /\ Len(C17_UdpDatagram) <= cap
              /\ cap = TCP_BUF_SIZE => Len(C17_TcpWrite) = 256
              /\ cap = UDP_BUF_SIZE => Len(C17_UdpDatagram) <= 1400
              /\ cap \in {TCP_BUF_SIZE, UDP_BUF_SIZE} => C17_UdpDatagram = cursor.text

C17_Step ==
    cursor' # cursor =>
        /\ cursor'.pc = "written"
        /\ cursor'.buf = cursor.buf /\ cursor'.text = cursor.text
        /\ UNCHANGED <<phase, exit_code, srvVars>>

C17_RealSizes ==
    /\ cursor.pc = "written"
    /\ Len(cursor.buf) = UDP_BUF_SIZE
    /\ cursor.res = "Ok"
    /\ Len(C17_UdpDatagram) > 0

C18_AllClosed ==
    /\ \A i \in TcpIds : tcp_loop[i].pc = "closed"
    /\ \A j \in UdpIds : udp_loop[j].pc = "closed"

C18_State ==
    /\ phase = "running" =>
          /\ exit_code = -1
          /\ ENABLED CtrlC
          /\ \A i \in TcpIds : tcp_loop[i].pc = "closed" =>
                /\ ~ENABLED TcpAcceptErr(i)
                /\ \A r \in Remotes : ~ENABLED TcpAcceptOk(i, r)
          /\ \A j \in UdpIds : udp_loop[j].pc = "closed" =>
                /\ ~ENABLED UdpRecvErr(j)
                /\ \A r \in Remotes, n \in DatagramLens : ~ENABLED UdpRecvOk(j, r, n)
                /\ \A res \in SendResults : ~ENABLED UdpSendDone(j, res)
    /\ (phase = "exited" /\ TcpIds \cup UdpIds # {}) =>
          /\ exit_code = 0
          /\ \A i \in TcpIds : tcp_loop[i].pc \in {"closed", "aborted"}
          /\ \A j \in UdpIds : udp_loop[j].pc \in {"closed", "aborted"}

C18_Step ==
    /\ (phase = "running" /\ phase' # "running") => CtrlC
    /\ (phase = "running" /\ exit_code' # exit_code) => CtrlC
    /\ phase = "exited" => phase' = "exited" /\ exit_code' = exit_code

C19_State ==
    /\ \A i \in TcpIds :
          /\ tcp_loop[i].counter = tcp_obs[i].ops
          /\ Successes(tcp_obs[i]) > 0 =>
                /\ tcp_obs[i].last = tcp_obs[i].ops - tcp_obs[i].streak
                /\ tcp_obs[i].first <= tcp_obs[i].last
                /\ tcp_obs[i].last >= Successes(tcp_obs[i])
          /\ \A k \in DOMAIN tcp_handlers[i] : tcp_handlers[i][k].n \in 1..tcp_obs[i].ops
    /\ \A j \in UdpIds :
          /\ udp_loop[j].counter = udp_obs[j].ops
          /\ Successes(udp_obs[j]) > 0 =>
                /\ udp_obs[j].last = udp_obs[j].ops - udp_obs[j].streak
                /\ udp_obs[j].first <= udp_obs[j].last
                /\ udp_obs[j].last >= Successes(udp_obs[j])
                /\ udp_log[j][1].data =
                      UdpReply(udp_log[j][1].remote, udp_log[j][1].buf_len, udp_obs[j].last)

C19_Step ==
    /\ \A i \in TcpBoth :
          Successes(tcp_obs'[i]) # Successes(tcp_obs[i]) =>
              LET number == tcp_obs[i].ops + 1
                  h == tcp_handlers'[i][Len(tcp_handlers'[i])]
              IN  /\ tcp_obs'[i].ops = number
                  /\ tcp_obs'[i].last = number
                  /\ Len(tcp_handlers'[i]) = Len(tcp_handlers[i]) + 1
                  /\ h.n = number
                  /\ h.pc = "write"
    /\ \A j \in UdpBoth :
          Successes(udp_obs'[j]) # Successes(udp_obs[j]) =>
              LET number == udp_obs[j].ops + 1
                  d == udp_log'[j][1]
              IN  /\ udp_obs'[j].ops = number
                  /\ udp_obs'[j].last = number
                  /\ d.data = UdpReply(d.remote, d.buf_len, number)

\* C19: in both loops the counter equals the accept/receive operations done,
\* failed ones included, and the number given to a success (the one its
\* response carries) is the count of operations up to and including it.
C19_NumberCountsOperations ==
    /\ []C19_State
    /\ [][C19_Step]_vars

\* on a listener and on a socket a success that came after two failures got
\* number 3, and a later failure has moved the counter on to 4
C19_Witness ==
    /\ \E i \in TcpIds :
          /\ tcp_obs[i].first = 3 /\ tcp_obs[i].errs = 3 /\ tcp_loop[i].counter = 4
          /\ \E k \in DOMAIN tcp_handlers[i] : tcp_handlers[i][k].n = 3
    /\ \E j \in UdpIds :
          /\ udp_obs[j].first = 3 /\ udp_obs[j].errs = 3 /\ udp_loop[j].counter = 4
          /\ udp_log[j][1].data = UdpReply(udp_log[j][1].remote, udp_log[j][1].buf_len, 3)

====
